---- MODULE Spec2Model ----
(***************************************************************************)
(* Model of the per-core vcpu scheduler of core/vmm_scheduler.c.           *)
(*                                                                         *)
(* The interrupt-context handlers (timer event, IRQ entry) run with        *)
(* interrupts masked and are atomic actions.  The preemption guard is      *)
(* called from non-interrupt context: Spec takes each call as a whole,     *)
(* SpecIntr splits it at the points where an interrupt can be taken.       *)
(* The vcpu registry is an external collaborator that changes the state    *)
(* of vcpus between handlers (kick, pause, resume); SpecLife adds halt     *)
(* and reset and leaves the guard out.  SpecLive is the handlers and the   *)
(* guard with a recurring tick and no registry.  A guard call runs on the  *)
(* register frame of the vcpu that is current, so a call interrupted by a  *)
(* dispatch goes on when that vcpu is dispatched again.                    *)
(***************************************************************************)
EXTENDS Integers, FiniteSets, Sequences, TLC

\* ---- bounds ----
MaxVcpus == 3
MaxTick == 2
MaxPreempt == 2

\* ---- vcpu states (vmm_vcpu_t.state) ----
RESET == "RESET"
READY == "READY"
RUNNING == "RUNNING"
PAUSED == "PAUSED"
HALTED == "HALTED"
VcpuStates == {RESET, READY, RUNNING, PAUSED, HALTED}

\* "no vcpu": the value -1 of sched.vcpu_current, and a NULL vmm_vcpu_t *
NONE == -1

VARIABLES
  vcpu_count,     \* vmm_manager_vcpu_count()
  state,          \* vcpu->state, per vcpu number
  preempt_count,  \* vcpu->preempt_count
  tick_count,     \* vcpu->tick_count
  tick_pending,   \* vcpu->tick_pending
  tick_func,      \* vcpu->tick_func registered (TRUE) or NULL (FALSE)
  vcpu_current,   \* sched.vcpu_current
  sched_ev,       \* sched.ev allocated (TRUE) or NULL (FALSE)
  init_rc,        \* return value of vmm_scheduler_init
  hung,           \* the core spins forever inside a handler
  pc,             \* per vcpu context: position of its guard call in flight
  pvcpu,          \* per vcpu context: the call's local `vcpu` pointer
  ev,             \* what the last operation did (the collaborator calls it made)
  nest,           \* history: guard nesting depth per vcpu (disables less enables)
  seen,           \* history: vcpus selected since the round began
  away            \* history: the context was switched out inside its guard call

vars == <<vcpu_count, state, preempt_count, tick_count, tick_pending, tick_func,
          vcpu_current, sched_ev, init_rc, hung, pc, pvcpu, ev, nest, seen, away>>

Vcpus == 0 .. (vcpu_count - 1)

\* ---- collaborators ----

\* VMM_VCPU_STATE_SAVEABLE: the states whose register content is preserved
IsSaveable(s) == s \in {READY, RUNNING}

\* vmm_manager_vcpu(num): the vcpu, or NULL when num names none
vmm_manager_vcpu(num) == IF num \in Vcpus THEN num ELSE NONE

\* no vmm_vcpu_regs_switch call; a call is recorded as << <<from, to>> >>
NoExch == <<>>

\* the record of one operation:
\*   dispatched  vmm_scheduler_next was called and returned
\*   probes      indices whose state the candidate search read
\*   exch        the vmm_vcpu_regs_switch call made, if any
\*   hook        the argument tick_func was called with, NONE when not called
\*   irq         vmm_vcpu_irq_process was called
\*   restarted   number of vmm_timer_event_start / _restart calls
\*   guard       the change made to a preempt_count
\*   was         the state the selected vcpu was in when the dispatcher chose it
Event(op) ==
  [op |-> op, dispatched |-> FALSE, probes |-> 0, exch |-> NoExch,
   hook |-> NONE, irq |-> FALSE, restarted |-> 0, guard |-> 0, was |-> ""]

\* ---- vmm_scheduler_next ----

\* lines 46-50: the while loop of the candidate search; `probes` counts the
\* indices whose state the loop condition has read.  Once vcpu_count indices
\* were read and the condition still holds, the loop is back in a state it was
\* in before (nothing changes while interrupts are masked): it never exits.
RECURSIVE SearchLoop(_, _, _, _, _)
SearchLoop(st, cur, n, next, probes) ==
  IF (st[next] # READY) /\ (next # cur)
    THEN IF probes >= n
           THEN [next |-> next, probes |-> probes + 1, diverges |-> TRUE]
           ELSE SearchLoop(st, cur, n, (next + 1) % n, probes + 1)
    ELSE [next |-> next, probes |-> probes, diverges |-> FALSE]

\* a search that starts over from index 0 instead of the index after current
SearchNextFromZero(st, cur, n) ==
  SearchLoop(st, cur, n, 0, 1)

\* a search that starts at the current index instead of the index after it
SearchNextFromCurrent(st, cur, n) ==
  LET cur_vcpu == IF cur \in 0 .. (n - 1) THEN cur ELSE NONE
      next0 == IF cur_vcpu # NONE THEN cur_vcpu ELSE 0
  IN SearchLoop(st, cur, n, next0 % n, 1)

\* lines 40-50: determine the current vcpu and the next ready vcpu
SearchNext(st, cur, n) ==
  LET cur_vcpu == IF cur \in 0 .. (n - 1) THEN cur ELSE NONE
      next0 == IF cur_vcpu # NONE THEN cur_vcpu ELSE -1
  IN SearchLoop(st, cur, n, (next0 + 1) % n, 1)

\* a switch that leaves a Running current vcpu Running
SwitchToNoDemote(st, tp, tc, cur, nxt) ==
  LET switch == (cur = NONE) \/ (cur # nxt)
      save == (cur # NONE) /\ IsSaveable(st[cur])
  IN [state |-> [st EXCEPT ![nxt] = RUNNING],
      tick_pending |-> [tp EXCEPT ![nxt] = tc[nxt]],
      vcpu_current |-> nxt,
      exch |-> IF switch THEN << <<IF save THEN cur ELSE NONE, nxt>> >> ELSE NoExch]

\* a switch that marks the selected vcpu Running only when it exchanged
SwitchToRunningOnSwitch(st, tp, tc, cur, nxt) ==
  LET switch == (cur = NONE) \/ (cur # nxt)
      save == (cur # NONE) /\ IsSaveable(st[cur])
      st1 == IF switch /\ save /\ st[cur] = RUNNING
               THEN [st EXCEPT ![cur] = READY] ELSE st
  IN [state |-> IF switch THEN [st1 EXCEPT ![nxt] = RUNNING] ELSE st1,
      tick_pending |-> [tp EXCEPT ![nxt] = tc[nxt]],
      vcpu_current |-> nxt,
      exch |-> IF switch THEN << <<IF save THEN cur ELSE NONE, nxt>> >> ELSE NoExch]

\* a switch that does not reload the quantum of the selected vcpu
SwitchToNoReload(st, tp, tc, cur, nxt) ==
  LET switch == (cur = NONE) \/ (cur # nxt)
      save == (cur # NONE) /\ IsSaveable(st[cur])
      st1 == IF switch /\ save /\ st[cur] = RUNNING
               THEN [st EXCEPT ![cur] = READY] ELSE st
  IN [state |-> [st1 EXCEPT ![nxt] = RUNNING],
      tick_pending |-> tp,
      vcpu_current |-> nxt,
      exch |-> IF switch THEN << <<IF save THEN cur ELSE NONE, nxt>> >> ELSE NoExch]

\* a switch that exchanges registers on every dispatch
SwitchToAlways(st, tp, tc, cur, nxt) ==
  LET save == (cur # NONE) /\ IsSaveable(st[cur])
      st1 == IF save /\ st[cur] = RUNNING
               THEN [st EXCEPT ![cur] = READY] ELSE st
  IN [state |-> [st1 EXCEPT ![nxt] = RUNNING],
      tick_pending |-> [tp EXCEPT ![nxt] = tc[nxt]],
      vcpu_current |-> nxt,
      exch |-> << <<IF save THEN cur ELSE NONE, nxt>> >>]

\* a switch that saves the registers of the current vcpu whatever its state
SwitchToAlwaysSave(st, tp, tc, cur, nxt) ==
  LET switch == (cur = NONE) \/ (cur # nxt)
      save == cur # NONE
      st1 == IF switch /\ save /\ st[cur] = RUNNING THEN [st EXCEPT ![cur] = READY] ELSE st
  IN [state |-> [st1 EXCEPT ![nxt] = RUNNING],
      tick_pending |-> [tp EXCEPT ![nxt] = tc[nxt]],
      vcpu_current |-> nxt,
      exch |-> IF switch THEN << <<IF save THEN cur ELSE NONE, nxt>> >> ELSE NoExch]

\* a switch that leaves a reselected vcpu in the state it is in
SwitchToKeepReselected(st, tp, tc, cur, nxt) ==
  LET switch == (cur = NONE) \/ (cur # nxt)
      save == (cur # NONE) /\ IsSaveable(st[cur])
      st1 == IF switch /\ save /\ st[cur] = RUNNING THEN [st EXCEPT ![cur] = READY] ELSE st
  IN [state |-> IF switch THEN [st1 EXCEPT ![nxt] = RUNNING] ELSE st1,
      tick_pending |-> [tp EXCEPT ![nxt] = tc[nxt]],
      vcpu_current |-> nxt,
      exch |-> IF switch THEN << <<IF save THEN cur ELSE NONE, nxt>> >> ELSE NoExch]

\* a switch that restarts the quantum of every vcpu
SwitchToReloadAll(st, tp, tc, cur, nxt) ==
  LET switch == (cur = NONE) \/ (cur # nxt)
      save == (cur # NONE) /\ IsSaveable(st[cur])
      st1 == IF switch /\ save /\ st[cur] = RUNNING THEN [st EXCEPT ![cur] = READY] ELSE st
  IN [state |-> [st1 EXCEPT ![nxt] = RUNNING],
      tick_pending |-> tc,
      vcpu_current |-> nxt,
      exch |-> IF switch THEN << <<IF save THEN cur ELSE NONE, nxt>> >> ELSE NoExch]

\* lines 52-68: context switch and bookkeeping, for the selected vcpu nxt
SwitchTo(st, tp, tc, cur, nxt) ==
  LET switch == (cur = NONE) \/ (cur # nxt)
      save == (cur # NONE) /\ IsSaveable(st[cur])
      st1 == IF switch /\ save /\ st[cur] = RUNNING
               THEN [st EXCEPT ![cur] = READY] ELSE st
  IN [state |-> [st1 EXCEPT ![nxt] = RUNNING],
      tick_pending |-> [tp EXCEPT ![nxt] = tc[nxt]],
      vcpu_current |-> nxt,
      exch |-> IF switch THEN << <<IF save THEN cur ELSE NONE, nxt>> >> ELSE NoExch]

\* the schedulable vcpus: Ready, or Running as the current one
Schedulable ==
  {v \in Vcpus : state[v] = READY \/ (v = vcpu_current /\ state[v] = RUNNING)}

\* the context on the core: the code running between two interrupt handlers
\* runs on the register frame of the current vcpu, and a register exchange
\* suspends it until that vcpu is dispatched again
OnCore == vcpu_current

\* vmm_scheduler_next(regs), called from handler `op`; `restart` is the number
\* of vmm_timer_event_restart calls the handler makes after it returns
vmm_scheduler_next(op, restart) ==
  LET s == SearchNext(state, vcpu_current, vcpu_count)
      r == SwitchTo(state, tick_pending, tick_count,
                    vmm_manager_vcpu(vcpu_current), s.next)
  IN IF s.diverges
       THEN /\ hung' = TRUE
            /\ ev' = [Event(op) EXCEPT !.probes = s.probes]
            /\ UNCHANGED <<state, tick_pending, vcpu_current, seen, away>>
       ELSE /\ state' = r.state
            /\ tick_pending' = r.tick_pending
            /\ vcpu_current' = r.vcpu_current
            /\ ev' = [Event(op) EXCEPT !.dispatched = TRUE, !.probes = s.probes,
                                       !.exch = r.exch, !.restarted = restart,
                                       !.was = state[s.next]]
            /\ away' = IF OnCore # NONE /\ r.vcpu_current # OnCore
                           /\ pc[OnCore] # "idle"
                         THEN [away EXCEPT ![OnCore] = TRUE] ELSE away
            /\ seen' = IF Schedulable \subseteq seen
                         THEN {s.next} ELSE seen \cup {s.next}
            /\ UNCHANGED hung

\* ---- vmm_scheduler_timer_event ----

\* a guard test that never finds preemption disabled
PreemptDisabledNever(vcpu) == FALSE

\* lines 75, 80: vcpu->preempt_count is nonzero
PreemptDisabled(vcpu) == preempt_count[vcpu] # 0

\* a timer event that dispatches one tick early: it takes a quantum with one
\* tick left as run out
TimerEventOneTickEarly ==
  /\ ~hung
  /\ sched_ev
  /\ LET vcpu == vmm_manager_vcpu(vcpu_current)
     IN IF vcpu # NONE
          THEN IF ~PreemptDisabled(vcpu)
                 THEN IF tick_pending[vcpu] <= 1
                        THEN vmm_scheduler_next("timer", 1)
                        ELSE /\ tick_pending' = [tick_pending EXCEPT ![vcpu] = @ - 1]
                             /\ ev' = [Event("timer") EXCEPT
                                         !.hook = IF tick_func[vcpu] /\ ~PreemptDisabled(vcpu)
                                                    THEN tick_pending[vcpu] - 1 ELSE NONE,
                                         !.restarted = 1]
                             /\ UNCHANGED <<state, vcpu_current, hung, seen, away>>
                 ELSE /\ ev' = [Event("timer") EXCEPT !.restarted = 1]
                      /\ UNCHANGED <<state, tick_pending, vcpu_current, hung, seen, away>>
          ELSE vmm_scheduler_next("timer", 1)
  /\ UNCHANGED <<vcpu_count, preempt_count, tick_count, tick_func, sched_ev, init_rc,
                 pc, pvcpu, nest>>

\* a timer event that hands the tick hook the value tick_pending had before
\* the tick was taken off
TimerEventHookBeforeDecrement ==
  /\ ~hung
  /\ sched_ev
  /\ LET vcpu == vmm_manager_vcpu(vcpu_current)
     IN IF vcpu # NONE
          THEN IF ~PreemptDisabled(vcpu)
                 THEN IF tick_pending[vcpu] = 0
                        THEN vmm_scheduler_next("timer", 1)
                        ELSE /\ tick_pending' = [tick_pending EXCEPT ![vcpu] = @ - 1]
                             /\ ev' = [Event("timer") EXCEPT
                                         !.hook = IF tick_func[vcpu] /\ ~PreemptDisabled(vcpu)
                                                    THEN tick_pending[vcpu] ELSE NONE,
                                         !.restarted = 1]
                             /\ UNCHANGED <<state, vcpu_current, hung, seen, away>>
                 ELSE /\ ev' = [Event("timer") EXCEPT !.restarted = 1]
                      /\ UNCHANGED <<state, tick_pending, vcpu_current, hung, seen, away>>
          ELSE vmm_scheduler_next("timer", 1)
  /\ UNCHANGED <<vcpu_count, preempt_count, tick_count, tick_func, sched_ev, init_rc,
                 pc, pvcpu, nest>>

vmm_scheduler_timer_event ==
  /\ ~hung
  /\ sched_ev
  /\ LET vcpu == vmm_manager_vcpu(vcpu_current)
     IN IF vcpu # NONE
          THEN IF ~PreemptDisabled(vcpu)
                 THEN IF tick_pending[vcpu] = 0
                        THEN vmm_scheduler_next("timer", 1)
                        ELSE /\ tick_pending' = [tick_pending EXCEPT ![vcpu] = @ - 1]
                             /\ ev' = [Event("timer") EXCEPT
                                         !.hook = IF tick_func[vcpu] /\ ~PreemptDisabled(vcpu)
                                                    THEN tick_pending[vcpu] - 1 ELSE NONE,
                                         !.restarted = 1]
                             /\ UNCHANGED <<state, vcpu_current, hung, seen, away>>
                 ELSE /\ ev' = [Event("timer") EXCEPT !.restarted = 1]
                      /\ UNCHANGED <<state, tick_pending, vcpu_current, hung, seen, away>>
          ELSE vmm_scheduler_next("timer", 1)
  /\ UNCHANGED <<vcpu_count, preempt_count, tick_count, tick_func, sched_ev, init_rc,
                 pc, pvcpu, nest>>

\* ---- vmm_scheduler_irq_process ----
\* an IRQ gate that hands every interrupt to the current vcpu, whatever its
\* state
IrqProcessNoStateTest ==
  /\ ~hung
  /\ LET vcpu == vmm_manager_vcpu(vcpu_current)
     IN IF vcpu = NONE
          THEN /\ ev' = Event("irq")
               /\ UNCHANGED <<state, tick_pending, vcpu_current, hung, seen, away>>
          ELSE /\ ev' = [Event("irq") EXCEPT !.irq = TRUE]
               /\ UNCHANGED <<state, tick_pending, vcpu_current, hung, seen, away>>
  /\ UNCHANGED <<vcpu_count, preempt_count, tick_count, tick_func, sched_ev, init_rc,
                 pc, pvcpu, nest>>

vmm_scheduler_irq_process ==
  /\ ~hung
  /\ LET vcpu == vmm_manager_vcpu(vcpu_current)
     IN IF vcpu = NONE
          THEN /\ ev' = Event("irq")
               /\ UNCHANGED <<state, tick_pending, vcpu_current, hung, seen, away>>
          ELSE IF state[vcpu] # RUNNING
                 THEN vmm_scheduler_next("irq", 0)
                 ELSE /\ ev' = [Event("irq") EXCEPT !.irq = TRUE]
                      /\ UNCHANGED <<state, tick_pending, vcpu_current, hung, seen, away>>
  /\ UNCHANGED <<vcpu_count, preempt_count, tick_count, tick_func, sched_ev, init_rc,
                 pc, pvcpu, nest>>

\* ---- vmm_scheduler_current_vcpu ----
vmm_scheduler_current_vcpu ==
  IF vcpu_current # -1 THEN vmm_manager_vcpu(vcpu_current) ELSE NONE

\* ---- vmm_scheduler_preempt_disable ----

RECURSIVE SumTo(_, _)
SumTo(f, k) == IF k < 0 THEN 0 ELSE f[k] + SumTo(f, k - 1)
\* the total guard depth over all vcpus, which MaxPreempt bounds
TotalPreempt == SumTo(preempt_count, vcpu_count - 1)

\* an increment whose write is lost
PreemptIncLost(c) == c

\* line 141: vcpu->preempt_count++
PreemptInc(c) == c + 1

\* a decrement that clears the counter: a guard that does not nest
PreemptDecToZero(c) == 0

\* line 152: vcpu->preempt_count--
PreemptDec(c) == c - 1

\* the context on the core has no guard call in flight
Idle == OnCore # NONE => pc[OnCore] = "idle"

\* the context on the core is at position l of a guard call
At(l) == OnCore # NONE /\ pc[OnCore] = l

\* guard depth held or about to be taken, which MaxPreempt bounds
GuardDepth == TotalPreempt + Cardinality({v \in Vcpus : pc[v] = "disable_inc"})

\* the whole call, when no interrupt is taken inside it
vmm_scheduler_preempt_disable ==
  /\ ~hung
  /\ Idle
  /\ LET vcpu == vmm_scheduler_current_vcpu
     IN IF vcpu # NONE
          THEN /\ TotalPreempt < MaxPreempt
               /\ preempt_count' = [preempt_count EXCEPT ![vcpu] = PreemptInc(@)]
               /\ nest' = [nest EXCEPT ![vcpu] = @ + 1]
               /\ ev' = [Event("preempt_disable") EXCEPT !.guard = 1]
          ELSE /\ ev' = Event("preempt_disable")
               /\ UNCHANGED <<preempt_count, nest>>
  /\ UNCHANGED <<vcpu_count, state, tick_count, tick_pending, tick_func,
                 vcpu_current, sched_ev, init_rc, hung, pc, pvcpu, seen, away>>

\* lines 138-139: resolve the current vcpu through the locked accessor; with
\* no current vcpu the call returns at once
PreemptDisableResolve ==
  /\ ~hung
  /\ Idle
  /\ LET vcpu == vmm_scheduler_current_vcpu
     IN IF vcpu # NONE
          THEN /\ GuardDepth < MaxPreempt
               /\ pvcpu' = [pvcpu EXCEPT ![OnCore] = vcpu]
               /\ pc' = [pc EXCEPT ![OnCore] = "disable_inc"]
               /\ away' = [away EXCEPT ![OnCore] = FALSE]
          ELSE UNCHANGED <<pc, pvcpu, away>>
  /\ ev' = Event("preempt_disable")
  /\ UNCHANGED <<vcpu_count, state, preempt_count, tick_count, tick_pending, tick_func,
                 vcpu_current, sched_ev, init_rc, hung, nest, seen>>

\* lines 140-142: the interrupt-masked increment
PreemptDisableInc ==
  /\ ~hung
  /\ At("disable_inc")
  /\ preempt_count' = [preempt_count EXCEPT ![pvcpu[OnCore]] = PreemptInc(@)]
  /\ nest' = [nest EXCEPT ![pvcpu[OnCore]] = @ + 1]
  /\ pc' = [pc EXCEPT ![OnCore] = "idle"]
  /\ pvcpu' = [pvcpu EXCEPT ![OnCore] = NONE]
  /\ ev' = [Event("preempt_disable") EXCEPT !.guard = 1]
  /\ UNCHANGED <<vcpu_count, state, tick_count, tick_pending, tick_func,
                 vcpu_current, sched_ev, init_rc, hung, seen, away>>

\* ---- vmm_scheduler_preempt_enable ----

\* the whole call, when no interrupt is taken inside it
vmm_scheduler_preempt_enable ==
  /\ ~hung
  /\ Idle
  /\ LET vcpu == vmm_scheduler_current_vcpu
     IN IF vcpu # NONE /\ preempt_count[vcpu] # 0
          THEN /\ preempt_count' = [preempt_count EXCEPT ![vcpu] = PreemptDec(@)]
               /\ nest' = [nest EXCEPT ![vcpu] = IF @ > 0 THEN @ - 1 ELSE 0]
               /\ ev' = [Event("preempt_enable") EXCEPT !.guard = -1]
          ELSE /\ ev' = Event("preempt_enable")
               /\ UNCHANGED <<preempt_count, nest>>
  /\ UNCHANGED <<vcpu_count, state, tick_count, tick_pending, tick_func,
                 vcpu_current, sched_ev, init_rc, hung, pc, pvcpu, seen, away>>

\* line 149: resolve the current vcpu through the locked accessor
PreemptEnableResolve ==
  /\ ~hung
  /\ Idle
  /\ LET vcpu == vmm_scheduler_current_vcpu
     IN IF vcpu # NONE
          THEN /\ pvcpu' = [pvcpu EXCEPT ![OnCore] = vcpu]
               /\ pc' = [pc EXCEPT ![OnCore] = "enable_check"]
               /\ away' = [away EXCEPT ![OnCore] = FALSE]
          ELSE UNCHANGED <<pc, pvcpu, away>>
  /\ ev' = Event("preempt_enable")
  /\ UNCHANGED <<vcpu_count, state, preempt_count, tick_count, tick_pending, tick_func,
                 vcpu_current, sched_ev, init_rc, hung, nest, seen>>

\* an enable that goes on to the decrement without testing the counter
PreemptEnableNoCheck ==
  /\ ~hung
  /\ At("enable_check")
  /\ pc' = [pc EXCEPT ![OnCore] = "enable_dec"]
  /\ ev' = Event("preempt_enable")
  /\ UNCHANGED <<vcpu_count, state, preempt_count, tick_count, tick_pending, tick_func,
                 vcpu_current, sched_ev, init_rc, hung, pvcpu, nest, seen, away>>

\* line 150: the unmasked test of vcpu->preempt_count
PreemptEnableCheck ==
  /\ ~hung
  /\ At("enable_check")
  /\ IF preempt_count[pvcpu[OnCore]] # 0
       THEN pc' = [pc EXCEPT ![OnCore] = "enable_dec"] /\ pvcpu' = pvcpu
       ELSE pc' = [pc EXCEPT ![OnCore] = "idle"]
            /\ pvcpu' = [pvcpu EXCEPT ![OnCore] = NONE]
  /\ ev' = Event("preempt_enable")
  /\ UNCHANGED <<vcpu_count, state, preempt_count, tick_count, tick_pending, tick_func,
                 vcpu_current, sched_ev, init_rc, hung, nest, seen, away>>

\* lines 151-153: the interrupt-masked decrement
PreemptEnableDec ==
  /\ ~hung
  /\ At("enable_dec")
  /\ preempt_count' = [preempt_count EXCEPT ![pvcpu[OnCore]] = PreemptDec(@)]
  /\ nest' = [nest EXCEPT ![pvcpu[OnCore]] = IF @ > 0 THEN @ - 1 ELSE 0]
  /\ pc' = [pc EXCEPT ![OnCore] = "idle"]
  /\ pvcpu' = [pvcpu EXCEPT ![OnCore] = NONE]
  /\ ev' = [Event("preempt_enable") EXCEPT !.guard = -1]
  /\ UNCHANGED <<vcpu_count, state, tick_count, tick_pending, tick_func,
                 vcpu_current, sched_ev, init_rc, hung, seen, away>>

\* ---- the vcpu registry (external) ----
\* kick: Reset -> Ready; pause: Ready or Running -> Paused; resume: Paused -> Ready.
\* A vcpu is created in Reset; the registry in this model neither halts nor
\* resets a vcpu it has kicked.
RegistrySetState ==
  /\ ~hung
  /\ \E v \in Vcpus :
       \/ state[v] = RESET /\ state' = [state EXCEPT ![v] = READY]
       \/ state[v] \in {READY, RUNNING} /\ state' = [state EXCEPT ![v] = PAUSED]
       \/ state[v] = PAUSED /\ state' = [state EXCEPT ![v] = READY]
  /\ seen' = {}
  /\ ev' = Event("registry")
  /\ UNCHANGED <<vcpu_count, preempt_count, tick_count, tick_pending, tick_func,
                 vcpu_current, sched_ev, init_rc, hung, pc, pvcpu, nest, away>>

\* halt: a kicked vcpu -> Halted; reset: any vcpu that left Reset -> Reset
RegistryHaltReset ==
  /\ ~hung
  /\ \E v \in Vcpus :
       \/ state[v] \in {READY, RUNNING, PAUSED} /\ state' = [state EXCEPT ![v] = HALTED]
       \/ state[v] # RESET /\ state' = [state EXCEPT ![v] = RESET]
  /\ seen' = {}
  /\ ev' = Event("registry")
  /\ UNCHANGED <<vcpu_count, preempt_count, tick_count, tick_pending, tick_func,
                 vcpu_current, sched_ev, init_rc, hung, pc, pvcpu, nest, away>>

\* ---- vmm_scheduler_init ----
VMM_OK == 0
VMM_EFAIL == -1

\* an init that does not test the result of vmm_timer_event_create: it starts
\* the timer and reports success whether or not the event was allocated
InitIgnoresAllocFailure(alloc) ==
  /\ vcpu_current = -1
  /\ sched_ev = alloc
  /\ init_rc = VMM_OK
  /\ ev = [Event("init") EXCEPT !.restarted = 1]

\* the state vmm_scheduler_init leaves; alloc: vmm_timer_event_create succeeded
vmm_scheduler_init(alloc) ==
  /\ vcpu_current = -1
  /\ sched_ev = alloc
  /\ init_rc = IF alloc THEN VMM_OK ELSE VMM_EFAIL
  /\ ev = [Event("init") EXCEPT !.restarted = IF alloc THEN 1 ELSE 0]

\* the registry holds 1 .. MaxVcpus vcpus, each created (Reset) or already
\* kicked (Ready); quanta of 1 .. MaxTick ticks; every other vcpu has a tick hook
Init ==
  /\ vcpu_count \in 1 .. MaxVcpus
  /\ state \in [Vcpus -> {RESET, READY}]
  /\ preempt_count = [v \in Vcpus |-> 0]
  /\ tick_count = [v \in Vcpus |-> 1 + (v % MaxTick)]
  /\ tick_pending = [v \in Vcpus |-> 0]
  /\ tick_func = [v \in Vcpus |-> v % 2 = 0]
  /\ \E alloc \in BOOLEAN : vmm_scheduler_init(alloc)
  /\ hung = FALSE
  /\ pc = [v \in Vcpus |-> "idle"]
  /\ pvcpu = [v \in Vcpus |-> NONE]
  /\ nest = [v \in Vcpus |-> 0]
  /\ seen = {}
  /\ away = [v \in Vcpus |-> FALSE]

\* handlers, whole guard calls and the registry
Next ==
  \/ vmm_scheduler_timer_event
  \/ vmm_scheduler_irq_process
  \/ vmm_scheduler_preempt_disable
  \/ vmm_scheduler_preempt_enable
  \/ RegistrySetState

Spec == Init /\ [][Next]_vars

\* handlers taken at any point of a guard call
NextIntr ==
  \/ vmm_scheduler_timer_event
  \/ vmm_scheduler_irq_process
  \/ PreemptDisableResolve
  \/ PreemptDisableInc
  \/ PreemptEnableResolve
  \/ PreemptEnableCheck
  \/ PreemptEnableDec

SpecIntr == Init /\ [][NextIntr]_vars

\* handlers and the whole vcpu lifecycle, with no guard call
NextLife ==
  \/ vmm_scheduler_timer_event
  \/ vmm_scheduler_irq_process
  \/ RegistrySetState
  \/ RegistryHaltReset

SpecLife == Init /\ [][NextLife]_vars

\* handlers and whole guard calls, with no change of readiness from outside
NextLive ==
  \/ vmm_scheduler_timer_event
  \/ vmm_scheduler_irq_process
  \/ vmm_scheduler_preempt_disable
  \/ vmm_scheduler_preempt_enable

\* the timer event is restarted by every tick that returns (line 89), so the
\* tick recurs for as long as it can be taken
SpecLive == Init /\ [][NextLive]_vars /\ WF_vars(vmm_scheduler_timer_event)

TypeOK ==
  /\ vcpu_count \in 1 .. MaxVcpus
  /\ state \in [Vcpus -> VcpuStates]
  /\ vcpu_current \in Vcpus \cup {NONE}
  /\ pvcpu \in [Vcpus -> Vcpus \cup {NONE}]
  /\ pc \in [Vcpus -> {"idle", "disable_inc", "enable_check", "enable_dec"}]
  /\ \A v \in Vcpus : tick_pending[v] \in 0 .. tick_count[v]

\* ---- claims ----

Running == {v \in Vcpus : state[v] = RUNNING}

\* distance from the index after c to v, going up modulo n
CycDist(c, v, n) == (v - c - 1 + n) % n
\* the member of S met first when counting up from the index after c
NextInCycle(c, S, n) ==
  CHOOSE v \in S : \A w \in S : CycDist(c, v, n) <= CycDist(c, w, n)

\* C1: round-robin fairness.  A dispatch made while some vcpu is schedulable
\* selects the schedulable vcpu that comes first after current in increasing
\* index order modulo the vcpu count, and leaves the set of schedulable vcpus
\* as it was; in a run of dispatches with no change of readiness from outside,
\* no vcpu is selected a second time before every schedulable vcpu was
\* selected once.
C1_RoundRobin ==
  [][ (ev'.dispatched /\ Schedulable # {}) =>
        /\ vcpu_current' = NextInCycle(vcpu_current, Schedulable, vcpu_count)
        /\ Schedulable' = Schedulable
        /\ (~(Schedulable \subseteq seen) => vcpu_current' \notin seen) ]_vars

\* a round over three schedulable vcpus has just completed
C1_Witness ==
  /\ ev.dispatched
  /\ vcpu_count = 3
  /\ Schedulable = Vcpus
  /\ seen = Vcpus

\* C2: the candidate search always terminates, having read the state of at
\* most vcpu_count indices (the claim as stated, for every registry state).
C2_SearchTerminates ==
  /\ ~hung
  /\ ev.probes <= vcpu_count

\* C3: at most one vcpu is Running.
C3_AtMostOneRunning == Cardinality(Running) <= 1

\* a dispatch has just switched from a Running vcpu to another one
C3_Witness ==
  /\ ev.dispatched
  /\ ev.exch # NoExch
  /\ ev.exch[1][1] # NONE
  /\ state[ev.exch[1][1]] = READY
  /\ Running = {vcpu_current}

C5_QuantumReloaded ==
  [][ /\ ev'.dispatched =>
           tick_pending'[vcpu_current'] = tick_count'[vcpu_current']
      /\ \A v \in Vcpus :
           (state[v] # RUNNING /\ state'[v] = RUNNING) =>
             tick_pending'[v] = tick_count'[v] ]_vars

\* a dispatch reselected a current vcpu whose quantum of two ticks had run out
C5_Witness ==
  /\ ev.op = "timer"
  /\ ev.dispatched
  /\ ev.exch = NoExch
  /\ tick_count[vcpu_current] = 2
  /\ tick_pending[vcpu_current] = 2

\* C6: a timer event taken while the current vcpu has preempt_count > 0
\* changes neither vcpu_current nor any vcpu's state, tick_pending or
\* preempt_count, calls neither the dispatcher nor the tick hook; no tick is
\* kept for later: a timer event taken with preempt_count = 0 and ticks
\* pending takes off exactly one tick.
C6_TicksDropped ==
  [][ (ev'.op = "timer" /\ vcpu_current # NONE) =>
        /\ preempt_count[vcpu_current] > 0 =>
             /\ UNCHANGED <<vcpu_current, state, tick_pending, preempt_count>>
             /\ ~ev'.dispatched
             /\ ev'.hook = NONE
        /\ (preempt_count[vcpu_current] = 0 /\ tick_pending[vcpu_current] > 0) =>
             tick_pending'[vcpu_current] = tick_pending[vcpu_current] - 1 ]_vars

\* a tick was dropped that would have dispatched: the quantum has run out,
\* another vcpu is Ready, and the guard is held
C6_Witness ==
  /\ ev.op = "timer"
  /\ ~ev.dispatched
  /\ vcpu_current # NONE
  /\ preempt_count[vcpu_current] > 0
  /\ tick_pending[vcpu_current] = 0
  /\ \E v \in Vcpus : state[v] = READY

\* C7: no preempt_count is ever negative, with handlers taken at any point of
\* a guard call; no step of preempt_enable changes a preempt_count of 0, a
\* vcpu's state or tick_pending, or vcpu_current, and it lowers a counter by
\* one at most.
C7_NeverNegative ==
  /\ [](\A v \in Vcpus : preempt_count[v] >= 0)
  /\ [][ ev'.op = "preempt_enable" =>
           /\ UNCHANGED <<vcpu_current, state, tick_pending, tick_count>>
           /\ \A v \in Vcpus :
                /\ preempt_count[v] = 0 => preempt_count'[v] = 0
                /\ preempt_count'[v] \in {preempt_count[v], preempt_count[v] - 1} ]_vars

\* preempt_enable has returned without a decrement: the counter of the
\* current vcpu was 0 and is 0
C7_Witness ==
  /\ ev.op = "preempt_enable"
  /\ ev.guard = 0
  /\ vcpu_current # NONE
  /\ pc[vcpu_current] = "idle"
  /\ preempt_count[vcpu_current] = 0

\* C8: preempt_count is the nesting depth (calls of preempt_disable less calls
\* of preempt_enable on that vcpu); at depth > 0 a timer event neither takes
\* a tick off nor dispatches, at depth 0 it does one of the two.
C8_Nesting ==
  /\ [](\A v \in Vcpus : preempt_count[v] = nest[v])
  /\ [][ (ev'.op = "timer" /\ vcpu_current # NONE) =>
           /\ nest[vcpu_current] > 0 =>
                (tick_pending' = tick_pending /\ ~ev'.dispatched)
           /\ nest[vcpu_current] = 0 =>
                \/ ev'.dispatched
                \/ tick_pending'[vcpu_current] = tick_pending[vcpu_current] - 1 ]_vars

\* after two disables and one enable the guard is still held at depth 1
C8_Witness ==
  /\ ev.op = "preempt_enable"
  /\ ev.guard = -1
  /\ vcpu_current # NONE
  /\ nest[vcpu_current] = 1
  /\ preempt_count[vcpu_current] = 1

\* C9 (as stated): while the current vcpu's preempt_count is nonzero, neither
\* the timer event nor the IRQ entry changes vcpu_current or exchanges
\* registers.
C9_GuardStopsEveryEntry ==
  [][ (ev'.op \in {"timer", "irq"} /\ vcpu_current # NONE
         /\ preempt_count[vcpu_current] > 0) =>
        (vcpu_current' = vcpu_current /\ ev'.exch = NoExch) ]_vars

\* C10: a dispatch made while there is a current vcpu and no other vcpu is
\* Ready exchanges no registers, leaves vcpu_current as it is and leaves the
\* current vcpu Running.
C10_NoOtherReady ==
  [][ (ev'.dispatched /\ vcpu_current # NONE
         /\ \A v \in Vcpus \ {vcpu_current} : state[v] # READY) =>
        /\ ev'.exch = NoExch
        /\ vcpu_current' = vcpu_current
        /\ state'[vcpu_current] = RUNNING ]_vars

\* the search went round three vcpus, found none Ready and came back to the
\* current one, whose quantum had run out
C10_Witness ==
  /\ ev.op = "timer"
  /\ ev.dispatched
  /\ ev.probes = 3
  /\ vcpu_count = 3
  /\ ev.exch = NoExch
  /\ \A v \in Vcpus \ {vcpu_current} : state[v] # READY

\* C11: quantum accounting.  A timer event taken while the current vcpu A is
\* Running with preempt_count 0 and tick_pending k > 0 takes one tick off
\* tick_pending(A) and changes neither vcpu_current nor any state, so k ticks
\* bring tick_pending(A) from k to 0; the timer event taken at tick_pending 0
\* calls the dispatcher, and when some other vcpu is Ready and B is the one
\* that comes first after A in index order, it leaves A Ready, B Running with
\* tick_pending(B) = tick_count(B), and vcpu_current = B.
C11_QuantumAccounting ==
  [][ (ev'.op = "timer" /\ vcpu_current # NONE /\ state[vcpu_current] = RUNNING
         /\ preempt_count[vcpu_current] = 0) =>
        LET A == vcpu_current
            others == {v \in Vcpus \ {A} : state[v] = READY}
        IN IF tick_pending[A] > 0
             THEN /\ tick_pending' = [tick_pending EXCEPT ![A] = @ - 1]
                  /\ ~ev'.dispatched
                  /\ UNCHANGED <<vcpu_current, state>>
             ELSE /\ ev'.dispatched
                  /\ others # {} =>
                       LET B == NextInCycle(A, others, vcpu_count)
                       IN /\ state'[A] = READY
                          /\ state'[B] = RUNNING
                          /\ tick_pending'[B] = tick_count[B]
                          /\ vcpu_current' = B ]_vars

\* three vcpus A, B, C = 0, 1, 2: A's quantum of one tick has run out and the
\* timer event has switched from A to B, with C still waiting
C11_Witness ==
  /\ ev.op = "timer"
  /\ ev.dispatched
  /\ vcpu_count = 3
  /\ tick_count[0] = 1
  /\ ev.exch = << <<0, 1>> >>
  /\ state = [v \in Vcpus |-> IF v = 1 THEN RUNNING ELSE READY]
  /\ vcpu_current = 1
  /\ tick_pending[0] = 0
  /\ tick_pending[1] = tick_count[1]

\* C12: IRQ gate routing.  Each call of vmm_scheduler_irq_process does exactly
\* one of three things: with no current vcpu it returns, calling neither the
\* dispatcher nor the vcpu's interrupt processing and changing no scheduler or
\* vcpu field; with a current vcpu that is not Running it calls the dispatcher
\* and not the vcpu's interrupt processing; with a Running current vcpu it
\* calls the vcpu's interrupt processing and not the dispatcher, and changes
\* no scheduler or vcpu field.
C12_IrqRouting ==
  [][ ev'.op = "irq" =>
        IF vcpu_current = NONE
          THEN /\ ~ev'.dispatched /\ ~ev'.irq /\ ~hung'
               /\ UNCHANGED <<state, tick_pending, tick_count, preempt_count,
                              vcpu_current>>
          ELSE IF state[vcpu_current] # RUNNING
                 THEN ev'.dispatched /\ ~ev'.irq /\ ~hung'
                 ELSE /\ ev'.irq /\ ~ev'.dispatched /\ ~hung'
                      /\ UNCHANGED <<state, tick_pending, tick_count, preempt_count,
                                     vcpu_current>> ]_vars

\* an IRQ taken while the current vcpu was Paused has gone to the dispatcher,
\* which switched to another vcpu; the interrupt was not handed to a vcpu
C12_Witness ==
  /\ ev.op = "irq"
  /\ ev.dispatched
  /\ ~ev.irq
  /\ ev.exch # NoExch
  /\ \E v \in Vcpus : state[v] = PAUSED /\ ev.exch = << <<NONE, vcpu_current>> >>
                      /\ v # vcpu_current

\* C13: initialisation.  When the allocation of the timer event fails,
\* vmm_scheduler_init returns VMM_EFAIL without starting the timer, so no
\* timer event is ever taken, and the scheduler is left with no event and no
\* current vcpu; when it succeeds, vmm_scheduler_init returns VMM_OK with no
\* current vcpu and having started the timer exactly once.
C13_InitResult ==
  /\ ~sched_ev =>
       /\ init_rc = VMM_EFAIL
       /\ vcpu_current = NONE
       /\ ev.op # "timer"
       /\ ev.restarted = 0
       /\ ~ev.dispatched
  /\ sched_ev =>
       /\ init_rc = VMM_OK
       /\ ev.op = "init" => (vcpu_current = NONE /\ ev.restarted = 1)

\* the allocation failed, a vcpu is Ready and an interrupt has been taken
\* since: there is still no current vcpu
C13_Witness ==
  /\ init_rc = VMM_EFAIL
  /\ ev.op = "irq"
  /\ \E v \in Vcpus : state[v] = READY
  /\ vcpu_current = NONE

\* C14 (as stated): every call of vmm_scheduler_timer_event restarts the
\* timer event exactly once and returns, on every branch (no current vcpu,
\* preemption disabled, quantum run out, tick taken off the quantum), so that
\* a tick is always followed by another tick.
C14_TickRearms ==
  [][ ev'.op = "timer" => (ev'.restarted = 1 /\ ~hung') ]_vars

\* C15: switch policy.  A dispatch exchanges registers if and only if there
\* was no current vcpu or the selected vcpu differs from the current one, and
\* then exactly once, into the selected vcpu; the source of the exchange is the
\* current vcpu exactly when there is one and its state is Ready or Running,
\* and is absent otherwise (no current vcpu, or a current vcpu that is Paused,
\* Halted or Reset); a Running current vcpu that is switched out is left
\* Ready, and a current vcpu that is switched out in any other state keeps
\* its state.
C15_SwitchPolicy ==
  [][ ev'.dispatched =>
        LET cur == vcpu_current
            sel == vcpu_current'
        IN /\ Len(ev'.exch) <= 1
           /\ (ev'.exch # NoExch) <=> (cur = NONE \/ sel # cur)
           /\ ev'.exch # NoExch =>
                /\ ev'.exch[1][2] = sel
                /\ ev'.exch[1][1] = IF cur # NONE /\ state[cur] \in {READY, RUNNING}
                                      THEN cur ELSE NONE
           /\ (cur # NONE /\ sel # cur) =>
                state'[cur] = IF state[cur] = RUNNING THEN READY ELSE state[cur] ]_vars

\* the current vcpu 0 was halted and an interrupt has switched to vcpu 1 with
\* no source for the exchange; vcpu 0 is still Halted
C15_Witness ==
  /\ ev.dispatched
  /\ ev.exch = << <<NONE, 1>> >>
  /\ ev.op = "irq"
  /\ state[0] = HALTED
  /\ state[1] = RUNNING
  /\ vcpu_current = 1
  /\ tick_pending[0] > 0

\* C16: fallback policy.  A dispatch made while the current vcpu is Paused,
\* Halted or Reset and no other vcpu is Ready selects the current vcpu's own
\* slot again, exchanges no registers, overwrites the vcpu's state with
\* Running and reloads its tick_pending with its tick_count; the core is not
\* left idle and vcpu_current does not name a vcpu that is not Running.
C16_Fallback ==
  [][ (ev'.dispatched /\ vcpu_current # NONE
         /\ state[vcpu_current] \in {PAUSED, HALTED, RESET}
         /\ \A v \in Vcpus \ {vcpu_current} : state[v] # READY) =>
        /\ vcpu_current' = vcpu_current
        /\ ev'.exch = NoExch
        /\ state' = [state EXCEPT ![vcpu_current] = RUNNING]
        /\ tick_pending' = [tick_pending EXCEPT ![vcpu_current] = tick_count[vcpu_current]]
        /\ ~hung' ]_vars

\* the dispatcher has chosen the current vcpu again while it was Halted and
\* no vcpu was Ready: the vcpu is Running with a full quantum
C16_Witness ==
  /\ ev.dispatched
  /\ ev.was = HALTED
  /\ ev.exch = NoExch
  /\ vcpu_current # NONE
  /\ state[vcpu_current] = RUNNING
  /\ tick_pending[vcpu_current] = tick_count[vcpu_current]
  /\ \A v \in Vcpus \ {vcpu_current} : state[v] # READY
  /\ vcpu_count = 2

\* C17: tick hook.  A timer event calls the current vcpu's tick hook exactly
\* when there is a current vcpu, its preempt_count is 0, its tick_pending was
\* nonzero before the tick and it has a hook registered; the hook is then
\* called once, with the tick_pending already reduced by this tick.  The hook
\* is not called on a tick that dispatches, on a tick dropped because
\* preemption is disabled, or when there is no current vcpu.
C17_TickHook ==
  [][ ev'.op = "timer" =>
        LET cur == vcpu_current
            called == /\ cur # NONE
                      /\ preempt_count[cur] = 0
                      /\ tick_pending[cur] # 0
                      /\ tick_func[cur]
        IN /\ (ev'.hook # NONE) <=> called
           /\ called => /\ ev'.hook = tick_pending[cur] - 1
                        /\ ev'.hook = tick_pending'[cur]
                        /\ ~ev'.dispatched
           /\ ev'.dispatched => ev'.hook = NONE ]_vars

\* the current vcpu has a hook; a tick has taken the last tick off its quantum
\* and the hook has been called with 0
C17_Witness ==
  /\ ev.op = "timer"
  /\ ev.hook = 0
  /\ vcpu_current # NONE
  /\ tick_func[vcpu_current]
  /\ tick_pending[vcpu_current] = 0
  /\ preempt_count[vcpu_current] = 0
  /\ ~ev.dispatched

\* C18: frame conditions.  No step changes the tick_count of any vcpu; the
\* timer event, the IRQ entry and the dispatcher they call never change a
\* preempt_count; a dispatch changes state and tick_pending of no vcpu other
\* than the one that was current and the one selected; preempt_disable and
\* preempt_enable change nothing but the preempt_count of the vcpu resolved as
\* current, and never vcpu_current, a state or a tick_pending.
C18_Frame ==
  [][ /\ tick_count' = tick_count
      /\ ev'.op \in {"timer", "irq"} => preempt_count' = preempt_count
      /\ ev'.op \in {"timer", "irq"} =>
           \A v \in Vcpus \ {vcpu_current, vcpu_current'} :
             state'[v] = state[v] /\ tick_pending'[v] = tick_pending[v]
      /\ ev'.op \in {"preempt_disable", "preempt_enable"} =>
           /\ UNCHANGED <<vcpu_current, state, tick_pending>>
           /\ \A v \in Vcpus \ {vmm_scheduler_current_vcpu} :
                preempt_count'[v] = preempt_count[v] ]_vars

\* a dispatch has switched to vcpu 0 and left vcpu 1 with the one tick it had
\* left of its quantum of two, and a preempt_count that is held is still held
C18_Witness ==
  /\ ev.dispatched
  /\ vcpu_count = 3
  /\ ev.exch # NoExch
  /\ vcpu_current = 0
  /\ tick_count[1] = 2
  /\ tick_pending[1] = 1
  /\ \E v \in Vcpus : preempt_count[v] > 0

\* C19: no starvation.  After a successful init, with the tick recurring, no
\* change of readiness from outside and every preempt_count from some point
\* on staying 0, every Ready vcpu eventually becomes the Running current vcpu,
\* the first tick after boot (no current vcpu) dispatching directly; and it
\* does so within N dispatches, N the vcpu count: each dispatch that does not
\* select a Ready vcpu brings the current index nearer to it in index order.
C19_NoStarvation ==
  /\ (<>[](\A v \in 0 .. (MaxVcpus - 1) : v \in Vcpus => preempt_count[v] = 0)) =>
       \A v \in 0 .. (MaxVcpus - 1) :
         [](  (v \in Vcpus /\ sched_ev /\ state[v] = READY)
              => <>(v \in Vcpus /\ vcpu_current = v /\ state[v] = RUNNING))
  /\ [][ ev'.dispatched =>
           \A v \in Vcpus :
             (state[v] = READY /\ vcpu_current' # v) =>
               CycDist(vcpu_current', v, vcpu_count)
                 < CycDist(vcpu_current, v, vcpu_count) ]_vars

\* three vcpus were Ready at boot; the last of them in index order, vcpu 2,
\* is now the Running current vcpu, after vcpu 1
C19_Witness ==
  /\ vcpu_count = 3
  /\ ev.dispatched
  /\ ev.exch = << <<1, 2>> >>
  /\ vcpu_current = 2
  /\ state = [v \in Vcpus |-> IF v = 2 THEN RUNNING ELSE READY]
  /\ seen = {0, 1, 2}

====
